---- MODULE Spec2Model ----
(***************************************************************************)
(* Model of the Google Scraper API (src/index.js): the GET /search         *)
(* handler, scrapeGoogle, the two collector callbacks that write to the    *)
(* results buffer, and the clean-up that deduplicates and slices it.       *)
(*                                                                         *)
(* JavaScript strings that the code inspects character by character (the   *)
(* q and pages parameters) are sequences of one-character strings; titles, *)
(* links and addresses, which the code only compares or copies, are plain  *)
(* strings.  A JavaScript number is a record [nan, num] so that NaN, which *)
(* parseInt produces, is kept apart from every integer.                    *)
(***************************************************************************)
EXTENDS Integers, Sequences, FiniteSets, TLC

\* ------------------------------------------------------------------ bounds

\* Collector callbacks the engine makes during one scrape.
MaxCalls == 2
\* Longest run of distinct titles in a buffer handed to the clean-up alone.
MaxRun == 25
\* Largest page count handed to the clean-up alone.
MaxNormPages == 2

\* ------------------------------------------------------- JavaScript values

Null == "<null>"
Undefined == "<undefined>"

Str(s) == [kind |-> "string", str |-> s]
Absent == [kind |-> "undefined", str |-> <<>>]
\* q=a&q=b : the query parser of the framework yields an array, not a string
ArrayParam == [kind |-> "array", str |-> <<>>]

Num(n) == [nan |-> FALSE, num |-> n]
NaN == [nan |-> TRUE, num |-> 0]

IsSpace(c) == c \in {" ", "\t"}

RECURSIVE TrimStart(_)
TrimStart(s) ==
  IF s # <<>> /\ IsSpace(Head(s)) THEN TrimStart(Tail(s)) ELSE s

RECURSIVE TrimEnd(_)
TrimEnd(s) ==
  IF s # <<>> /\ IsSpace(s[Len(s)]) THEN TrimEnd(SubSeq(s, 1, Len(s) - 1)) ELSE s

\* String.prototype.trim
Trim(s) == TrimEnd(TrimStart(s))

DigitValue(c) ==
  CASE c = "0" -> 0 [] c = "1" -> 1 [] c = "2" -> 2 [] c = "3" -> 3
    [] c = "4" -> 4 [] c = "5" -> 5 [] c = "6" -> 6 [] c = "7" -> 7
    [] c = "8" -> 8 [] c = "9" -> 9

IsDigit(c) == c \in {"0", "1", "2", "3", "4", "5", "6", "7", "8", "9"}

\* the value of the longest prefix of digits of s, from the accumulator acc
RECURSIVE DigitsValue(_, _)
DigitsValue(s, acc) ==
  IF s # <<>> /\ IsDigit(Head(s))
  THEN DigitsValue(Tail(s), acc * 10 + DigitValue(Head(s)))
  ELSE acc

\* parseInt of a string: leading white space, a sign, then the digits up to
\* the first character that is none; NaN when there is no digit
ParseIntString(s) ==
  LET t == TrimStart(s)
      signed == t # <<>> /\ Head(t) \in {"-", "+"}
      digits == IF signed THEN Tail(t) ELSE t
  IN IF digits = <<>> \/ ~IsDigit(Head(digits)) THEN NaN
     ELSE IF signed /\ Head(t) = "-" THEN Num(0 - DigitsValue(digits, 0))
     ELSE Num(DigitsValue(digits, 0))

\* const { pages = 1 } = req.query; parseInt(pages)
ParseIntPages(p) ==
  IF p.kind = "undefined" THEN Num(1) ELSE ParseIntString(p.str)

\* a test that forgets to trim
InvalidQueryNoTrim(q) ==
  q.kind = "undefined" \/ q.str = <<>>

\* !query || query.trim() === ""   (evaluated for a string or an absent q)
InvalidQuery(q) ==
  q.kind = "undefined" \/ q.str = <<>> \/ Trim(q.str) = <<>>

\* query.trim is not a function: the test throws for a q that is no string
QueryTestThrows(q) == q.kind = "array"

\* a slice that takes the element at end as well
Slice0Inclusive(s, end) ==
  LET len == Len(s)
      to == IF end.nan THEN 0
            ELSE IF end.num < 0 THEN (IF len + end.num > 0 THEN len + end.num ELSE 0)
            ELSE IF end.num < len THEN end.num + 1 ELSE len
  IN SubSeq(s, 1, to)

\* Array.prototype.slice(0, end) for a JavaScript number end
Slice0(s, end) ==
  LET len == Len(s)
      to == IF end.nan THEN 0
            ELSE IF end.num < 0 THEN (IF len + end.num > 0 THEN len + end.num ELSE 0)
            ELSE IF end.num < len THEN end.num ELSE len
  IN SubSeq(s, 1, to)

\* pages * 10 and (pages - 1) * 10 on JavaScript numbers
Times10(n) == IF n.nan THEN NaN ELSE Num(n.num * 10)
PrevTimes10(n) == IF n.nan THEN NaN ELSE Num((n.num - 1) * 10)

\* ------------------------------------------------------------ scrapeGoogle

SearchResultsPage == "search results page"

\* a field of a page object: an array of collected strings, or no such field
Arr(s) == [has |-> TRUE, arr |-> s]
NoField == [has |-> FALSE, arr |-> <<>>]

\* x[0] of an array that may be empty
First(a) == IF a.arr = <<>> THEN Undefined ELSE a.arr[1]

Truthy(v) == v # "" /\ v # Undefined /\ v # Null

\* getPageObject: push a record when the page object has a first title
GetPageObject(results, pageObject, address) ==
  IF pageObject.title.has /\ Truthy(First(pageObject.title))
  THEN Append(results,
              [title |-> First(pageObject.title),
               link |-> IF pageObject.link.has THEN First(pageObject.link) ELSE Null,
               snippet |-> IF pageObject.snippet.has THEN First(pageObject.snippet) ELSE Null,
               source |-> address])
  ELSE results

\* results.some((r) => r.title === title)
SomeTitle(results, title) == \E i \in 1..Len(results) : results[i].title = title

DirectRecord(title) ==
  [title |-> title, link |-> Null, snippet |-> Null, source |-> SearchResultsPage]

\* a collector that does not look for the title in the buffer
RECURSIVE GetAllItemsNoSome(_, _)
GetAllItemsNoSome(results, items) ==
  IF items = <<>> THEN results
  ELSE GetAllItemsNoSome(
         IF Truthy(Head(items)) THEN Append(results, DirectRecord(Head(items)))
         ELSE results,
         Tail(items))

\* directTitles.getAllItems: items.forEach over the live buffer
RECURSIVE GetAllItemsLoop(_, _)
GetAllItemsLoop(results, items) ==
  IF items = <<>> THEN results
  ELSE GetAllItemsLoop(
         IF Truthy(Head(items)) /\ ~SomeTitle(results, Head(items))
         THEN Append(results, DirectRecord(Head(items)))
         ELSE results,
         Tail(items))

GetAllItems(results, items) == GetAllItemsLoop(results, items)

\* self.findIndex((r) => r.title === title), 1-based, 0 for JavaScript's -1
RECURSIVE FindIndexFrom(_, _, _)
FindIndexFrom(self, title, i) ==
  IF i > Len(self) THEN 0
  ELSE IF self[i].title = title THEN i
  ELSE FindIndexFrom(self, title, i + 1)

FindIndex(self, title) == FindIndexFrom(self, title, 1)

\* results.filter((result, index, self) => index === self.findIndex(...))
RECURSIVE FilterFrom(_, _)
FilterFrom(self, index) ==
  IF index > Len(self) THEN <<>>
  ELSE (IF index = FindIndex(self, self[index].title) THEN <<self[index]>> ELSE <<>>)
       \o FilterFrom(self, index + 1)

\* a dedupe that only drops a record equal in title to the one before it
RECURSIVE FilterAdjacentFrom(_, _)
FilterAdjacentFrom(self, index) ==
  IF index > Len(self) THEN <<>>
  ELSE (IF index = 1 \/ self[index - 1].title # self[index].title
        THEN <<self[index]>> ELSE <<>>)
       \o FilterAdjacentFrom(self, index + 1)

UniqueResultsAdjacent(results) == FilterAdjacentFrom(results, 1)

UniqueResults(results) == FilterFrom(results, 1)

\* a clean-up that slices from index 1: slice(1, pages * 10)
NormalizeSliceFromOne(results, pages) ==
  LET u == Slice0(UniqueResults(results), Times10(pages))
  IN SubSeq(u, 2, Len(u))

\* a clean-up that forgets the slice
NormalizeNoSlice(results, pages) == UniqueResults(results)

\* the clean-up of scrapeGoogle: dedupe by title, then slice(0, pages * 10)
Normalize(results, pages) == Slice0(UniqueResults(results), Times10(pages))

\* a descriptor that ends at pages * 10
PaginationEndAtPages(pages) ==
  [queryString |-> "start", begin |-> Num(0), end |-> Times10(pages), offset |-> Num(10)]

\* new Root({ pagination: { queryString, begin, end, offset } })
Pagination(pages) ==
  [queryString |-> "start", begin |-> Num(0), end |-> PrevTimes10(pages), offset |-> Num(10)]

\* the start offsets a pagination descriptor stands for: begin, begin+offset,
\* ... up to end ("Google uses offset pagination (0, 10, 20...)")
RECURSIVE OffsetsFrom(_, _)
OffsetsFrom(d, i) ==
  IF d.end.nan \/ i > d.end.num THEN <<>>
  ELSE <<i>> \o OffsetsFrom(d, i + d.offset.num)

Offsets(d) == OffsetsFrom(d, d.begin.num)

\* ------------------------------------------------------------------ state

Reqs == {1, 2}

VARIABLES
  pc,          \* per request: "idle", "scraping" (suspended at the await), "done"
  query,       \* req.query.q
  pages,       \* req.query.pages, as received
  headers,     \* headers set on the response with res.setHeader
  engine,      \* scraper.scrape(root): "none", "running", "resolved", "rejected"
  engineCalls, \* how many times the handler has called scraper.scrape
  error,       \* the message of the error the engine rejected with
  pagination,  \* the pagination descriptor of the Root handed to the engine
  buffers,     \* the results arrays, by the cell that holds them
  log,         \* history: the callbacks the engine has made for the request
  resp,        \* the responses sent for the request, in order
  nResults,    \* clean-up alone: the buffer
  nPages,      \* clean-up alone: the page count
  nOut         \* clean-up alone: the outputs of its successive applications

serverVars ==
  <<pc, query, pages, headers, engine, engineCalls, error, pagination, buffers, log, resp>>
normVars == <<nResults, nPages, nOut>>
vars ==
  <<pc, query, pages, headers, engine, engineCalls, error, pagination, buffers, log,
    resp, nResults, nPages, nOut>>

NoPagination ==
  [queryString |-> "", begin |-> NaN, end |-> NaN, offset |-> NaN]

\* one results array at module level, shared by every call
SharedResultsCell(r) == 1

\* const results = [] : every call of scrapeGoogle has a results array of its own
ResultsCell(r) == r

\* a call of scraper.scrape(root) that is not awaited
AwaitedNot(r) == engine[r] \in {"running", "resolved"}

\* the handler goes on after `await scraper.scrape(root)` once the scrape resolved
Awaited(r) == engine[r] = "resolved"

Response400 ==
  [status |-> 400,
   error |-> "Query parameter (q) is required",
   example |-> "/search?q=nodejs+tutorial&pages=2"]

Response500(message) ==
  [status |-> 500,
   success |-> FALSE,
   error |-> "Failed to scrape Google",
   message |-> message,
   suggestion |-> "Try again later or reduce the number of pages"]

Response200(q, p, results) ==
  [status |-> 200,
   success |-> TRUE,
   query |-> q.str,
   pages |-> ParseIntPages(p),
   totalResults |-> Len(results),
   results |-> results]

ServerInit ==
  /\ pc = [r \in Reqs |-> "idle"]
  /\ query = [r \in Reqs |-> Absent]
  /\ pages = [r \in Reqs |-> Absent]
  /\ headers = [r \in Reqs |-> {}]
  /\ engine = [r \in Reqs |-> "none"]
  /\ engineCalls = [r \in Reqs |-> 0]
  /\ error = [r \in Reqs |-> ""]
  /\ pagination = [r \in Reqs |-> NoPagination]
  /\ buffers = [c \in Reqs |-> <<>>]
  /\ log = [r \in Reqs |-> <<>>]
  /\ resp = [r \in Reqs |-> <<>>]

NormIdle ==
  /\ nResults = <<>>
  /\ nPages = Num(1)
  /\ nOut = <<>>

Init == ServerInit /\ NormIdle

\* --------------------------------------------------------- GET /search

\* app.get("/search") up to its first await: the validation, the headers, and
\* scrapeGoogle up to `await scraper.scrape(root)`
SearchHandler(r, q, p) ==
  /\ pc[r] \in {"idle", "done"}
  /\ query' = [query EXCEPT ![r] = q]
  /\ pages' = [pages EXCEPT ![r] = p]
  /\ log' = [log EXCEPT ![r] = <<>>]
  /\ error' = [error EXCEPT ![r] = ""]
  /\ IF QueryTestThrows(q)
     THEN \* the TypeError lands in the catch block
          /\ resp' = [resp EXCEPT ![r] = <<Response500("query.trim is not a function")>>]
          /\ pc' = [pc EXCEPT ![r] = "done"]
          /\ headers' = [headers EXCEPT ![r] = {}]
          /\ engine' = [engine EXCEPT ![r] = "none"]
          /\ engineCalls' = [engineCalls EXCEPT ![r] = 0]
          /\ pagination' = [pagination EXCEPT ![r] = NoPagination]
          /\ UNCHANGED buffers
     ELSE IF InvalidQuery(q)
     THEN /\ resp' = [resp EXCEPT ![r] = <<Response400>>]
          /\ pc' = [pc EXCEPT ![r] = "done"]
          /\ headers' = [headers EXCEPT ![r] = {}]
          /\ engine' = [engine EXCEPT ![r] = "none"]
          /\ engineCalls' = [engineCalls EXCEPT ![r] = 0]
          /\ pagination' = [pagination EXCEPT ![r] = NoPagination]
          /\ UNCHANGED buffers
     ELSE /\ resp' = [resp EXCEPT ![r] = <<>>]
          /\ headers' = [headers EXCEPT ![r] =
                           {"Access-Control-Allow-Origin", "Content-Type"}]
          /\ buffers' = [buffers EXCEPT ![ResultsCell(r)] = <<>>]
          /\ pagination' = [pagination EXCEPT ![r] = Pagination(ParseIntPages(p))]
          /\ engine' = [engine EXCEPT ![r] = "running"]
          /\ engineCalls' = [engineCalls EXCEPT ![r] = 1]
          /\ pc' = [pc EXCEPT ![r] = "scraping"]
  /\ UNCHANGED normVars

\* the engine calls getPageObject for a page it opened
CallGetPageObject(r, pageObject, address) ==
  /\ engine[r] = "running"
  /\ Len(log[r]) < MaxCalls
  /\ buffers' = [buffers EXCEPT ![ResultsCell(r)] = GetPageObject(@, pageObject, address)]
  /\ log' = [log EXCEPT ![r] =
               Append(@, [cb |-> "getPageObject", pageObject |-> pageObject,
                          address |-> address, items |-> <<>>])]
  /\ UNCHANGED <<pc, query, pages, headers, engine, engineCalls, error, pagination, resp>>
  /\ UNCHANGED normVars

\* the engine calls getAllItems of directTitles for a search results page
CallGetAllItems(r, items) ==
  /\ engine[r] = "running"
  /\ Len(log[r]) < MaxCalls
  /\ buffers' = [buffers EXCEPT ![ResultsCell(r)] = GetAllItems(@, items)]
  /\ log' = [log EXCEPT ![r] =
               Append(@, [cb |-> "getAllItems", pageObject |-> <<>>,
                          address |-> "", items |-> items])]
  /\ UNCHANGED <<pc, query, pages, headers, engine, engineCalls, error, pagination, resp>>
  /\ UNCHANGED normVars

\* scraper.scrape(root) resolves: the whole tree has been traversed
ScrapeResolves(r) ==
  /\ engine[r] = "running"
  /\ engine' = [engine EXCEPT ![r] = "resolved"]
  /\ UNCHANGED <<pc, query, pages, headers, engineCalls, error, pagination, buffers, log, resp>>
  /\ UNCHANGED normVars

\* scraper.scrape(root) rejects (network failure, timeout, engine error)
ScrapeRejects(r, message) ==
  /\ engine[r] = "running"
  /\ engine' = [engine EXCEPT ![r] = "rejected"]
  /\ error' = [error EXCEPT ![r] = message]
  /\ UNCHANGED <<pc, query, pages, headers, engineCalls, pagination, buffers, log, resp>>
  /\ UNCHANGED normVars

\* after the await: the clean-up of scrapeGoogle, then res.json of the handler
SearchRespond(r) ==
  /\ pc[r] = "scraping"
  /\ Awaited(r)
  /\ resp' = [resp EXCEPT ![r] =
                Append(@, Response200(query[r], pages[r],
                                      Normalize(buffers[ResultsCell(r)],
                                                ParseIntPages(pages[r]))))]
  /\ pc' = [pc EXCEPT ![r] = "done"]
  /\ UNCHANGED <<query, pages, headers, engine, engineCalls, error, pagination, buffers, log>>
  /\ UNCHANGED normVars

\* a catch block that starts the scrape again instead of answering
SearchCatchRetry(r) ==
  /\ pc[r] = "scraping"
  /\ engine[r] = "rejected"
  /\ engine' = [engine EXCEPT ![r] = "running"]
  /\ engineCalls' = [engineCalls EXCEPT ![r] = @ + 1]
  /\ UNCHANGED <<pc, query, pages, headers, error, pagination, buffers, log, resp>>
  /\ UNCHANGED normVars

\* the catch block of the handler, entered by the rejection of the scrape
SearchCatch(r) ==
  /\ pc[r] = "scraping"
  /\ engine[r] = "rejected"
  /\ resp' = [resp EXCEPT ![r] = Append(@, Response500(error[r]))]
  /\ pc' = [pc EXCEPT ![r] = "done"]
  /\ UNCHANGED <<query, pages, headers, engine, engineCalls, error, pagination, buffers, log>>
  /\ UNCHANGED normVars

\* ---------------------------------------------------------------- inputs

Queries ==
  {Absent, ArrayParam, Str(<<>>), Str(<<" ", "\t">>), Str(<<"a">>), Str(<<" ", "a">>)}

PagesParams ==
  {Absent, Str(<<>>), Str(<<"3">>), Str(<<"0">>), Str(<<"-", "1">>), Str(<<"2", "x">>)}

EngineErrors == {"ETIMEDOUT", "Request failed with status code 429"}

Addresses == {"https://a.example/"}

LongTitles ==
  <<"t01", "t02", "t03", "t04", "t05", "t06", "t07", "t08", "t09", "t10",
    "t11", "t12", "t13", "t14", "t15", "t16", "t17", "t18", "t19", "t20",
    "t21", "t22", "t23", "t24", "t25", "t26", "t27", "t28", "t29", "t30">>

\* one more heading than a page of results holds
ElevenTitles == SubSeq(LongTitles, 1, 10 + 1)

PageObjects ==
  {[title |-> NoField, link |-> NoField, snippet |-> NoField],
   [title |-> Arr(<<"">>), link |-> Arr(<<"https://a.example/">>), snippet |-> NoField],
   [title |-> Arr(<<"A">>), link |-> Arr(<<"https://a.example/">>), snippet |-> Arr(<<"about A">>)],
   [title |-> Arr(<<"B", "A">>), link |-> NoField, snippet |-> Arr(<<>>)],
   [title |-> Arr(<<"t01">>), link |-> NoField, snippet |-> NoField]}

ItemLists ==
  {<<>>, <<"", "B">>, <<"B", "B">>, <<"A", "B">>, ElevenTitles}

\* the inputs of the run with two requests in flight
QueriesTwo == {Absent, Str(<<"a">>)}
PagesParamsTwo == {Absent, Str(<<"0">>)}
EngineErrorsTwo == {"ETIMEDOUT"}
PageObjectsTwo ==
  {[title |-> Arr(<<"A">>), link |-> Arr(<<"https://a.example/">>), snippet |-> NoField]}
ItemListsTwo == {<<"A", "B">>}
\* the pages the engine opens for a request are those of its own search
AddressesTwo(r) == IF r = 1 THEN {"https://a.example/"} ELSE {"https://b.example/"}

\* ------------------------------------------------------- specifications

\* two requests in flight at once
Next ==
  \E r \in Reqs :
    \/ \E q \in QueriesTwo, p \in PagesParamsTwo : SearchHandler(r, q, p)
    \/ \E po \in PageObjectsTwo, a \in AddressesTwo(r) : CallGetPageObject(r, po, a)
    \/ \E items \in ItemListsTwo : CallGetAllItems(r, items)
    \/ ScrapeResolves(r)
    \/ \E m \in EngineErrorsTwo : ScrapeRejects(r, m)
    \/ SearchRespond(r)
    \/ SearchCatch(r)

Spec == Init /\ [][Next]_vars

\* one request at a time, over all the inputs
NextSingle ==
  \/ \E q \in Queries, p \in PagesParams : SearchHandler(1, q, p)
  \/ \E po \in PageObjects, a \in Addresses : CallGetPageObject(1, po, a)
  \/ \E items \in ItemLists : CallGetAllItems(1, items)
  \/ ScrapeResolves(1)
  \/ \E m \in EngineErrors : ScrapeRejects(1, m)
  \/ SearchRespond(1)
  \/ SearchCatch(1)

SpecSingle == Init /\ [][NextSingle]_vars

\* the buffer the callbacks of a log leave, from the empty array of line 81
RECURSIVE ReplayFrom(_, _)
ReplayFrom(results, l) ==
  IF l = <<>> THEN results
  ELSE ReplayFrom(
         IF Head(l).cb = "getPageObject"
         THEN GetPageObject(results, Head(l).pageObject, Head(l).address)
         ELSE GetAllItems(results, Head(l).items),
         Tail(l))

Replay(l) == ReplayFrom(<<>>, l)

PageCall(title) ==
  [cb |-> "getPageObject",
   pageObject |-> [title |-> Arr(<<title>>), link |-> NoField, snippet |-> NoField],
   address |-> "https://a.example/", items |-> <<>>]

ItemsCall(items) ==
  [cb |-> "getAllItems", pageObject |-> <<>>, address |-> "", items |-> items]

\* at most two page callbacks, before and after one long list of headings
ShortCalls ==
  LET T == {"A", "B", "t01"}
  IN {<<>>} \cup {<<PageCall(t)>> : t \in T}
            \cup {<<PageCall(t), PageCall(u)>> : t \in T, u \in T}

\* the clean-up alone, on buffers the callbacks can leave
InitNorm ==
  /\ ServerInit
  /\ \E pre \in ShortCalls, post \in ShortCalls, n \in 0..MaxRun, p \in 1..MaxNormPages :
       /\ nResults = Replay(pre \o <<ItemsCall(SubSeq(LongTitles, 1, n))>> \o post)
       /\ nPages = Num(p)
  /\ nOut = <<>>

\* the clean-up applied to the buffer, then to its own output
RunNormalizer ==
  /\ Len(nOut) < 2
  /\ nOut' = Append(nOut, Normalize(IF nOut = <<>> THEN nResults ELSE nOut[Len(nOut)],
                                    nPages))
  /\ UNCHANGED <<nResults, nPages>>
  /\ UNCHANGED serverVars

NextNorm == RunNormalizer

SpecNorm == InitNorm /\ [][NextNorm]_vars

\* ---------------------------------------------------------------- claims

Min(a, b) == IF a < b THEN a ELSE b

\* the positions of a buffer that hold the first record of their title
FirstOccurrences(buf) ==
  {i \in 1..Len(buf) : \A j \in 1..(i - 1) : buf[j].title # buf[i].title}

\* the k-th smallest member of a set of positions
Kth(S, k) == CHOOSE i \in S : Cardinality({j \in S : j <= i}) = k

DistinctTitles(buf) == {buf[i].title : i \in 1..Len(buf)}

NoTwoSameTitle(res) ==
  \A i \in 1..Len(res), j \in 1..Len(res) : i # j => res[i].title # res[j].title

\* every record of res is the first record of its title in buf, in buf's order
FirstKept(res, buf) ==
  /\ \A k \in 1..Len(res) :
       \E i \in FirstOccurrences(buf) : buf[i] = res[k]
  /\ \A k \in 1..Len(res), m \in 1..Len(res) :
       k < m =>
         \E i \in FirstOccurrences(buf), j \in FirstOccurrences(buf) :
           i < j /\ buf[i] = res[k] /\ buf[j] = res[m]

Answered200(r) == resp[r] # <<>> /\ resp[r][1].status = 200
Answered500(r) == resp[r] # <<>> /\ resp[r][1].status = 500
Answered400(r) == resp[r] # <<>> /\ resp[r][1].status = 400

\* C1, as stated: for every /search request and every order of callbacks, the
\* returned results hold no two records of one title, the record kept for a
\* title is the one appended first, and their number never exceeds pages * 10.
C1_AsStated ==
  \A r \in Reqs :
    Answered200(r) =>
      LET res == resp[r][1].results
          n == resp[r][1].pages
      IN /\ NoTwoSameTitle(res)
         /\ FirstKept(res, Replay(log[r]))
         /\ ~(~n.nan /\ Len(res) > n.num * 10)

\* C1, amended: the same, the bound on the number of records holding whenever
\* pages * 10 is not negative (for a negative pages, slice(0, pages * 10) cuts
\* the last records off instead, and what is left exceeds pages * 10).
C1_NoDuplicatesFirstWinsBounded ==
  \A r \in Reqs :
    Answered200(r) =>
      LET res == resp[r][1].results
          n == resp[r][1].pages
      IN /\ NoTwoSameTitle(res)
         /\ FirstKept(res, Replay(log[r]))
         /\ (~n.nan /\ n.num >= 0 => Len(res) <= n.num * 10)
         /\ (n.nan => res = <<>>)

\* a request answered with ten records out of eleven titles, one of them
\* collected twice
C1_Witness ==
  /\ Answered200(1)
  /\ resp[1][1].pages = Num(1)
  /\ Len(resp[1][1].results) = 10
  /\ Len(Replay(log[1])) = 12
  /\ Cardinality(DistinctTitles(Replay(log[1]))) = 11

\* a query is missing: q absent, empty, or made of white space only
QueryMissing(q) ==
  \/ q.kind = "undefined"
  \/ q.kind = "string" /\ \A i \in 1..Len(q.str) : q.str[i] \in {" ", "\t"}

\* C2: a request whose q is absent, empty, or empty after trimming is answered
\* 400 and the engine is never invoked for it.
C2_MissingQueryIs400WithoutEngine ==
  \A r \in Reqs :
    pc[r] # "idle" /\ QueryMissing(query[r]) =>
      /\ pc[r] = "done"
      /\ resp[r] = <<Response400>>
      /\ engineCalls[r] = 0
      /\ engine[r] = "none"

C2_Witness ==
  /\ pc[1] = "done"
  /\ query[1] = Str(<<" ", "\t">>)
  /\ Answered400(1)
  /\ engineCalls[1] = 0

\* C3, as stated: for all non-empty query strings, GET /search returns HTTP
\* 200 with results.length <= pages * 10.
C3_AsStated ==
  \A r \in Reqs :
    pc[r] = "done" /\ query[r].kind = "string" /\ query[r].str # <<>> =>
      /\ Answered200(r)
      /\ ~resp[r][1].pages.nan
      /\ Len(resp[r][1].results) <= resp[r][1].pages.num * 10

\* C3, amended: for all query strings that are not empty after trimming, GET
\* /search returns HTTP 200 when the scrape completes, with results.length <=
\* pages * 10 when pages parses to an integer >= 0, and HTTP 500 when the
\* engine fails.
C3_NonEmptyQuery200Or500 ==
  \A r \in Reqs :
    pc[r] = "done" /\ query[r].kind = "string" /\ ~QueryMissing(query[r]) =>
      \/ /\ engine[r] = "resolved"
         /\ Len(resp[r]) = 1
         /\ Answered200(r)
         /\ resp[r][1].totalResults = Len(resp[r][1].results)
         /\ (~resp[r][1].pages.nan /\ resp[r][1].pages.num >= 0 =>
               Len(resp[r][1].results) <= resp[r][1].pages.num * 10)
      \/ /\ engine[r] = "rejected"
         /\ Len(resp[r]) = 1
         /\ Answered500(r)

\* a query with leading white space answered 200 with a full page of results
C3_Witness ==
  /\ pc[1] = "done"
  /\ query[1] = Str(<<" ", "a">>)
  /\ Answered200(1)
  /\ resp[1][1].pages = Num(1)
  /\ Len(resp[1][1].results) = 10
  /\ Len(Replay(log[1])) > 10

\* C4: when the engine fails during a request that passed validation, the
\* failure is caught: the request ends with exactly one response, a 500 with
\* success = false, the engine's message and a retry suggestion; the engine is
\* not invoked a second time; and the server can take a later request.
C4_EngineFailureIsOne500 ==
  \A r \in Reqs :
    /\ engineCalls[r] <= 1
    /\ engine[r] = "rejected" =>
         /\ engineCalls[r] = 1
         /\ pc[r] \in {"scraping", "done"}
         /\ pc[r] = "scraping" => resp[r] = <<>> /\ ENABLED SearchCatch(r)
         /\ pc[r] = "done" =>
              /\ Len(resp[r]) = 1
              /\ resp[r][1].status = 500
              /\ resp[r][1].success = FALSE
              /\ resp[r][1].message = error[r]
              /\ error[r] \in EngineErrors
              /\ resp[r][1].suggestion = "Try again later or reduce the number of pages"
              /\ ENABLED SearchHandler(r, Str(<<"a">>), Absent)

\* the engine failed after it had made callbacks, and the request is answered
C4_Witness ==
  /\ pc[1] = "done"
  /\ engine[1] = "rejected"
  /\ Answered500(1)
  /\ resp[1][1].message = "ETIMEDOUT"
  /\ Len(log[1]) >= 1

\* what the clean-up is to give for a buffer and a page count n >= 1: the
\* first record of each title, in the buffer's order, cut to n * 10
ExpectedNormal(buf, n) ==
  LET S == FirstOccurrences(buf)
  IN [k \in 1..Min(Cardinality(S), n * 10) |-> buf[Kth(S, k)]]

TitlesOf(buf) == [i \in 1..Len(buf) |-> buf[i].title]

\* C5: for every buffer and every pages >= 1 the clean-up gives exactly the
\* first occurrence of each distinct title, in the original order, cut to the
\* first pages * 10; its length is min(distinct titles, pages * 10); [A,B,A]
\* gives [A,B].
C5_NormalizerIsStableDedupThenTruncate ==
  nOut # <<>> =>
    /\ nOut[1] = ExpectedNormal(nResults, nPages.num)
    /\ Len(nOut[1]) = Min(Cardinality(DistinctTitles(nResults)), nPages.num * 10)
    /\ (TitlesOf(nResults) = <<"A", "B", "A">> => TitlesOf(nOut[1]) = <<"A", "B">>)

\* 25 distinct titles, one of them twice, and pages = 2 give exactly 20 records
C5_Witness ==
  /\ nOut # <<>>
  /\ nPages = Num(2)
  /\ Cardinality(DistinctTitles(nResults)) = 25
  /\ Len(nResults) = 26
  /\ Len(nOut[1]) = 20

C7_PaginationOffsets ==
  \A r \in Reqs :
    engine[r] # "none" =>
      LET n == ParseIntPages(pages[r])
          offs == Offsets(pagination[r])
      IN /\ (~n.nan /\ n.num >= 1 =>
               /\ Len(offs) = n.num
               /\ \A i \in 1..Len(offs) : offs[i] = (i - 1) * 10
               /\ pagination[r].begin = Num(0)
               /\ pagination[r].offset = Num(10)
               /\ pagination[r].end = Num((n.num - 1) * 10))
         /\ (pages[r] = Absent => offs = <<0>>)
         /\ (pages[r] = Str(<<"3">>) => offs = <<0, 10, 20>>)

C7_Witness ==
  /\ engine[1] = "running"
  /\ pages[1] = Str(<<"3">>)
  /\ Offsets(pagination[1]) = <<0, 10, 20>>

\* C8: under every interleaving of concurrent requests, each scrape has its own
\* buffer, a callback of one invocation only appends to that invocation's
\* buffer, and the records returned for a request are those derived from its
\* own buffer, never records collected for another request.
C8_BuffersIsolated ==
  \A r \in Reqs :
    engine[r] # "none" =>
      /\ buffers[r] = Replay(log[r])
      /\ \A i \in 1..Len(buffers[r]) :
           buffers[r][i].source \in AddressesTwo(r) \cup {SearchResultsPage}
      /\ Answered200(r) =>
           /\ resp[r][1].results = Normalize(Replay(log[r]), ParseIntPages(pages[r]))
           /\ \A i \in 1..Len(resp[r][1].results) :
                resp[r][1].results[i].source \in AddressesTwo(r) \cup {SearchResultsPage}

\* both scrapes are running and have collected different buffers, and the
\* first has been answered from its own
C8_Witness ==
  /\ Answered200(1)
  /\ resp[1][1].results # <<>>
  /\ engine[2] = "running"
  /\ buffers[2] # <<>>
  /\ buffers[1] # buffers[2]
  /\ Len(log[1]) = MaxCalls

\* C9: within a request, the clean-up and the 200 response come only after the
\* engine has resolved the whole scrape: nothing is answered while the engine
\* runs, and every record a callback appended is in the buffer the clean-up
\* read (no callback runs after the response).
C9_RespondsOnlyAfterScrape ==
  /\ [](\A r \in Reqs :
          /\ engine[r] = "running" => resp[r] = <<>> /\ pc[r] = "scraping"
          /\ Answered200(r) =>
               /\ engine[r] = "resolved"
               /\ FirstKept(resp[r][1].results, Replay(log[r])))
  /\ [][\A r \in Reqs :
          Answered200(r) /\ resp'[r] = resp[r] =>
            log'[r] = log[r] /\ buffers'[r] = buffers[r]]_vars

C9_Witness ==
  /\ Answered200(1)
  /\ engine[1] = "resolved"
  /\ Len(log[1]) = MaxCalls
  /\ Len(resp[1][1].results) = Len(Replay(log[1]))
  /\ engine[2] = "running"

\* the members of s at the positions in S, in order
RECURSIVE PickFrom(_, _, _)
PickFrom(s, S, i) ==
  IF i > Len(s) THEN <<>>
  ELSE (IF i \in S THEN <<s[i]>> ELSE <<>>) \o PickFrom(s, S, i + 1)

\* the headings of items the direct-title collector is to append to buf: those
\* that are not empty, that no record of buf has as title, and that no earlier
\* heading of items equals
NewHeadings(buf, items) ==
  PickFrom(items,
           {k \in 1..Len(items) :
              /\ items[k] # ""
              /\ \A i \in 1..Len(buf) : buf[i].title # items[k]
              /\ \A m \in 1..(k - 1) : items[m] # items[k]},
           1)

\* C10: the direct-title collector appends {title, link = null, snippet =
\* null, source = "search results page"} for a heading exactly when the heading
\* is not empty and no record already in the buffer has that title; so at every
\* point no record of that source has the title of a record before it.
C10_DirectTitlesAppendOnlyNewTitles ==
  /\ [](\A r \in Reqs : \A i \in 1..Len(buffers[r]) :
          buffers[r][i].source = SearchResultsPage =>
            /\ buffers[r][i].link = Null
            /\ buffers[r][i].snippet = Null
            /\ buffers[r][i].title # ""
            /\ \A j \in 1..(i - 1) : buffers[r][j].title # buffers[r][i].title)
  /\ [][\A r \in Reqs :
          Len(log'[r]) = Len(log[r]) + 1 /\ log'[r][Len(log'[r])].cb = "getAllItems" =>
            LET new == NewHeadings(buffers[r], log'[r][Len(log'[r])].items)
            IN buffers'[r] =
                 buffers[r] \o [k \in 1..Len(new) |->
                                  [title |-> new[k], link |-> Null, snippet |-> Null,
                                   source |-> "search results page"]]]_vars

\* after a page record titled A, the collector was given [A, B] and appended B
C10_Witness ==
  /\ Len(log[1]) = 2
  /\ log[1][1].cb = "getPageObject"
  /\ log[1][2].cb = "getAllItems"
  /\ log[1][2].items = <<"A", "B">>
  /\ Len(buffers[1]) = 2
  /\ buffers[1][1].title = "A"
  /\ buffers[1][2] = [title |-> "B", link |-> Null, snippet |-> Null,
                      source |-> "search results page"]

====
